---- MODULE Spec2Model ----
(***************************************************************************)
(* JobRunner (include/service/jobs/job_runner.js): the base prototype of   *)
(* system jobs.  A job instance has an id, a name and a work weight, and   *)
(* reports its start, progress and completion into the job_run collection  *)
(* and its log statements into the job_log collection.  Every persistence  *)
(* write is dispatched asynchronously: the handler returns at once, the    *)
(* store applies the write (or fails it) later and calls the callback.     *)
(***************************************************************************)
EXTENDS Bags, FiniteSets, Integers, Sequences, TLC

(***************************************************************************)
(* Bounds of the model.                                                    *)
(***************************************************************************)
\* lifecycle/log/weight calls in one behaviour of Spec (two job instances)
MaxCalls == 2
\* lifecycle calls in one behaviour of SpecJob (one job instance)
MaxJobCalls == 4
\* writes dispatched and not yet settled in Spec, SpecJob and SpecFail
MaxPending == 2
\* writes the store fails in one behaviour
MaxFailures == 1
\* setChunkOfWorkPercentage calls in one behaviour of SpecChunk
MaxChunkCalls == 3
\* log calls in one behaviour of SpecLog
MaxLogCalls == 3
\* writes dispatched and not yet settled in SpecLog and SpecLife
MaxFlight == 3
\* calls in one behaviour of SpecLife
MaxLifeCalls == 3
\* calls in one behaviour of SpecDone
MaxDoneCalls == 3
\* calls other than init in one behaviour of SpecInit
MaxInitCalls == 1
\* init calls in one behaviour of SpecInit
MaxInits == 3

(***************************************************************************)
(* JavaScript values.  Every value has the same shape: a type tag t, a     *)
(* number n/d (a rational in lowest terms, d > 0) and a string s.  For an  *)
(* Error object s is its stack.                                            *)
(***************************************************************************)
Undef    == [t |-> "undefined", n |-> 0, d |-> 1, s |-> ""]
Null     == [t |-> "null",      n |-> 0, d |-> 1, s |-> ""]
NaN      == [t |-> "nan",       n |-> 0, d |-> 1, s |-> ""]
Num(p,q) == [t |-> "num",       n |-> p, d |-> q, s |-> ""]
Str(c)   == [t |-> "string",    n |-> 0, d |-> 1, s |-> c]
True     == [t |-> "boolean",   n |-> 1, d |-> 1, s |-> ""]
False    == [t |-> "boolean",   n |-> 0, d |-> 1, s |-> ""]
Err(c)   == [t |-> "error",     n |-> 0, d |-> 1, s |-> c]

\* typeof v === 'number': NaN is of type number
IsNumber(v) == v.t \in {"num", "nan"}

\* a number other than NaN: the values that have a place on the number line
IsFinite(v) == IsNumber(v) /\ v.t # "nan"

\* JavaScript truthiness, as used by `a || b`, `!a` and `a ? b : c`
Truthy(v) ==
    CASE v.t \in {"undefined", "null", "nan"} -> FALSE
      [] v.t = "num"     -> v.n # 0
      [] v.t = "boolean" -> v.n # 0
      [] v.t = "string"  -> v.s # ""
      [] OTHER           -> TRUE

\* a || b
Or(a, b) == IF Truthy(a) THEN a ELSE b

\* The numeric strings among the inputs of the model, with their values.
NumericStrings ==
    [s \in {"0.5", "2"} |-> IF s = "0.5" THEN Num(1, 2) ELSE Num(2, 1)]

\* ToNumber, the coercion behind isNaN and the relational operators
ToNumber(v) ==
    CASE v.t = "num"       -> v
      [] v.t = "nan"       -> NaN
      [] v.t = "undefined" -> NaN
      [] v.t = "null"      -> Num(0, 1)
      [] v.t = "boolean"   -> Num(v.n, 1)
      [] v.t = "string"    -> IF v.s = "" THEN Num(0, 1)
                              ELSE IF v.s \in DOMAIN NumericStrings
                                   THEN NumericStrings[v.s]
                                   ELSE NaN
      [] OTHER             -> NaN

\* isNaN(v)
IsNaN(v) == ToNumber(v).t = "nan"

\* v <= 0 and v > 1 on coerced operands; any comparison with NaN is false
LessEqZero(v) == LET x == ToNumber(v) IN x.t = "num" /\ x.n <= 0
GreaterOne(v) == LET x == ToNumber(v) IN x.t = "num" /\ x.n > x.d

RECURSIVE GCD(_, _)
GCD(a, b) == IF b = 0 THEN a ELSE GCD(b, a % b)

Abs(a) == IF a < 0 THEN 0 - a ELSE a

\* a + b on numbers, in lowest terms
AddNum(a, b) ==
    LET p == a.n * b.d + b.n * a.d
        q == a.d * b.d
        g == GCD(Abs(p), q)
    IN  Num(p \div g, q \div g)

RECURSIVE NatToStr(_)
NatToStr(k) ==
    LET digit == <<"0", "1", "2", "3", "4", "5", "6", "7", "8", "9">>
    IN  IF k < 10 THEN digit[k + 1]
        ELSE NatToStr(k \div 10) \o digit[(k % 10) + 1]

\* the digits of r/d after the decimal point, at most k of them
RECURSIVE FracDigits(_, _, _)
FracDigits(r, d, k) ==
    IF r = 0 \/ k = 0 THEN ""
    ELSE NatToStr((r * 10) \div d) \o FracDigits((r * 10) % d, d, k - 1)

\* The stacks among the errors of the model that have frames, with their
\* first line, "name: message".
ErrorHeads ==
    [s \in {"Error: boom\n    at f (x.js:1:1)"} |-> "Error: boom"]

\* the stack has frames
HasFrames(stack) == stack \in DOMAIN ErrorHeads

\* String(err) of an Error: name + ': ' + message
ErrorString(stack) == IF HasFrames(stack) THEN ErrorHeads[stack] ELSE stack

\* String(v), as string concatenation renders a value.  A fraction is
\* printed exactly when its expansion ends within 16 digits and cut after
\* 16 digits otherwise, which is how halves, quarters, eighths and thirds
\* print; these are the fractions of the model (a double such as 1/7 prints
\* a 17th digit and is not among them).
ToStr(v) ==
    CASE v.t = "string"    -> v.s
      [] v.t = "undefined" -> "undefined"
      [] v.t = "null"      -> "null"
      [] v.t = "nan"       -> "NaN"
      [] v.t = "boolean"   -> IF v.n = 1 THEN "true" ELSE "false"
      [] v.t = "error"     -> ErrorString(v.s)
      [] v.t = "num"       ->
            LET sign == IF v.n < 0 THEN "-" ELSE ""
                whole == NatToStr(Abs(v.n) \div v.d)
                r == Abs(v.n) % v.d
            IN  IF r = 0 THEN sign \o whole
                ELSE sign \o whole \o "." \o FracDigits(r, v.d, 16)
      [] OTHER             -> ""

\* util.inspect(err): the stack, in brackets when it has no frames
Inspect(v) == IF HasFrames(v.s) THEN v.s ELSE "[" \o v.s \o "]"

\* an argument as util.format prints it, under %s or appended: an Error is
\* inspected, every other value of the model prints as String(v)
FormatArg(v) == IF v.t = "error" THEN Inspect(v) ELSE ToStr(v)

\* util.format(pattern, args...): each %s of the pattern takes the next
\* argument; arguments left over are appended, each after a space.  A
\* pattern is the sequence of its pieces, "%s" being a piece of its own.
RECURSIVE Format(_, _)
Format(pattern, rest) ==
    IF pattern = <<>>
    THEN IF rest = <<>> THEN ""
         ELSE " " \o FormatArg(Head(rest)) \o Format(<<>>, Tail(rest))
    ELSE IF Head(pattern) = "%s" /\ rest # <<>>
         THEN FormatArg(Head(rest)) \o Format(Tail(pattern), Tail(rest))
         ELSE Head(pattern) \o Format(Tail(pattern), rest)

\* The strings among the names of the model that hold a format directive,
\* cut into their pieces.
FormatPieces == [s \in {"50%s"} |-> <<"50", "%s">>]

\* a string read as a pattern
Pieces(c) == IF c \in DOMAIN FormatPieces THEN FormatPieces[c] ELSE <<c>>

\* a pattern used as a plain string
RECURSIVE Join(_)
Join(pattern) ==
    IF pattern = <<>> THEN "" ELSE Head(pattern) \o Join(Tail(pattern))

\* util.isError(v)
IsError(v) == v.t = "error"

(***************************************************************************)
(* Constants of job_runner.js.                                             *)
(***************************************************************************)
JOB_LOG_STORE_NAME   == "job_log"
JOB_STORE_NAME       == "job_run"
DEFAULT_START_STATUS == "RUNNING"
DEFAULT_DONE_STATUS  == "COMPLETED"
DEFAULT_ERROR_STATUS == "ERRORED"

(***************************************************************************)
(* The collaborators of the job runner that live outside this file: the    *)
(* validation helpers, the identifier generator, the worker id and the     *)
(* DAO.  They follow the contracts the specification gives for them.       *)
(***************************************************************************)
\* pb.validation.isFloat(val, true, true): a value of type number
IsFloat(v) == IsFinite(v)

\* pb.validation.validateNonEmptyStr(val, true)
ValidateNonEmptyStr(v) == v.t = "string" /\ v.s # ""

\* pb.utils.uniqueId().toString(): the k-th identifier the generator hands out
UniqueIds == <<"5f01", "5f02", "5f03", "5f04">>
UniqueId(k) == Str(UniqueIds[k])

\* pb.system.getWorkerId()
WorkerId == Str("worker-1")

\* A persisted document.  A field a document does not have is Undef.
Doc(ot, id, name, status, progress, error, jobId, worker, message) ==
    [object_type |-> ot, _id |-> id, name |-> name, status |-> status,
     progress |-> progress, error |-> error, job_id |-> jobId,
     worker_id |-> worker, message |-> message]

NoDoc == Doc(Undef, Undef, Undef, Undef, Undef, Undef, Undef, Undef, Undef)

\* pb.DAO.getIDWhere(id): the equality filter on the document key
GetIDWhere(id) == [NoDoc EXCEPT !._id = id]

Matches(doc, query) == doc._id = query._id

\* the positions of the documents of a collection that a query selects
Selected(coll, query) == {i \in DOMAIN coll : Matches(coll[i], query)}

Min(S) == CHOOSE x \in S : \A y \in S : x <= y

\* dao.save / dao.update of a document: an upsert keyed by _id; a document
\* without _id is inserted under a key of its own
DaoSave(coll, doc) ==
    IF doc._id # Undef /\ Selected(coll, doc) # {}
    THEN [coll EXCEPT ![Min(Selected(coll, doc))] = doc]
    ELSE Append(coll, doc)

\* one field of a document overwritten
SetField(doc, f, v) == [doc EXCEPT ![f] = v]

\* one numeric field of a document incremented (a missing field counts 0)
IncField(doc, f, v) ==
    [doc EXCEPT ![f] = IF IsFinite(@) THEN AddNum(@, v) ELSE v]

RECURSIVE ApplyPairs(_, _, _)
ApplyPairs(doc, pairs, inc) ==
    IF pairs = <<>> THEN doc
    ELSE ApplyPairs(IF inc THEN IncField(doc, Head(pairs)[1], Head(pairs)[2])
                    ELSE SetField(doc, Head(pairs)[1], Head(pairs)[2]),
                    Tail(pairs), inc)

\* dao.updateFields(collection, query, updates): the first selected document
\* gets the $inc increments and the $set overwrites; no upsert
DaoUpdateFields(coll, query, updates) ==
    IF Selected(coll, query) = {} THEN coll
    ELSE LET i == Min(Selected(coll, query))
         IN  [coll EXCEPT ![i] =
                  ApplyPairs(ApplyPairs(@, updates.inc, TRUE), updates.set, FALSE)]

NoUpdates == [inc |-> <<>>, set |-> <<>>]

\* A dispatched write: the DAO operation, the collection, its arguments, the
\* job instance that issued it and the handler whose callback waits for it.
\* `args` records the arguments of the call, for the properties below.
Write(op, coll, query, doc, updates, by, from, args) ==
    [op |-> op, coll |-> coll, query |-> query, doc |-> doc,
     updates |-> updates, by |-> by, from |-> from, args |-> args]

NoWrite == Write("none", "none", NoDoc, NoDoc, NoUpdates, "none", "none", <<>>)

\* the error the store reports for a write it fails
StoreError == Err("Error: write failed")

(***************************************************************************)
(* The state.                                                              *)
(***************************************************************************)
VARIABLES
    inst,       \* the job instances: dao set (inited), id, name, chunkOfWorkPercentage,
                \* and how often a callback handed to run was invoked (cbCalls)
    idGen,      \* identifiers pb.utils.uniqueId has handed out
    job_run,    \* the job_run collection, in insertion order
    job_log,    \* the job_log collection, in insertion order
    pending,    \* writes dispatched and not yet settled, in issuance order
    diag,       \* pb.log: the bag of the entries written to the diagnostic sink
    last,       \* the step taken last: the call and its outcome, or the settled write
    calls,      \* calls made so far
    failures,   \* writes failed so far
    phase,      \* per instance: how far its calls follow onStart, onUpdate*, onCompleted
    inOrder,    \* every job_run write so far settled successfully and in issuance order
    runlog,     \* the last two writes applied to job_run, each with the progress before it
    initArgs,   \* per instance: the arguments init was called with last
    inits       \* init calls made so far

vars == <<inst, idGen, job_run, job_log, pending, diag, last, calls, failures,
          phase, inOrder, runlog, initArgs, inits>>

Instances == {"J1", "J2"}

\* function JobRunner(): dao = null, id = null, chunkOfWorkPercentage = 1
JobRunner ==
    [inited |-> FALSE, id |-> Null, name |-> Undef,
     chunkOfWorkPercentage |-> Num(1, 1), cbCalls |-> 0]

Step(act, by, args, threw, w, ok) ==
    [act |-> act, by |-> by, args |-> args, threw |-> threw, w |-> w, ok |-> ok]

Init ==
    /\ inst = [j \in Instances |-> JobRunner]
    /\ idGen = 0
    /\ job_run = <<>>
    /\ job_log = <<>>
    /\ pending = <<>>
    /\ diag = EmptyBag
    /\ last = Step("new", "none", <<>>, FALSE, NoWrite, TRUE)
    /\ calls = 0
    /\ failures = 0
    /\ phase = [j \in Instances |-> "new"]
    /\ inOrder = TRUE
    /\ runlog = <<>>
    /\ initArgs = [j \in Instances |-> <<Undef, Undef>>]
    /\ inits = 0

\* getId()
getId(j) == inst[j].id

\* getChunkOfWorkPercentage()
getChunkOfWorkPercentage(j) == inst[j].chunkOfWorkPercentage

(***************************************************************************)
(* init(name, jobId)                                                       *)
(***************************************************************************)
\* mutant of InitId: the identifier generated once and handed to every job
InitIdStale(jobId, k) == Or(jobId, UniqueId(1))

\* jobId || pb.utils.uniqueId().toString()
InitId(jobId, k) == Or(jobId, UniqueId(k + 1))

\* name || this.id
InitName(name, id) == Or(name, id)

init(j, name, jobId) ==
    /\ LET id == InitId(jobId, idGen)
       IN  /\ inst' = [inst EXCEPT ![j].inited = TRUE,
                                   ![j].id = id,
                                   ![j].name = InitName(name, id)]
           /\ idGen' = IF Truthy(jobId) THEN idGen ELSE idGen + 1
    /\ phase' = [phase EXCEPT ![j] = "ready"]
    /\ last' = Step("init", j, <<name, jobId>>, FALSE, NoWrite, TRUE)
    /\ initArgs' = [initArgs EXCEPT ![j] = <<name, jobId>>]
    /\ inits' = inits + 1
    /\ UNCHANGED <<job_run, job_log, pending, diag, calls, failures, inOrder, runlog>>

(***************************************************************************)
(* setChunkOfWorkPercentage(chunkOfWorkPercentage)                         *)
(***************************************************************************)
\* mutant of ChunkRejected: the upper limit exclusive
ChunkRejectedAtOne(v) ==
    IsNaN(v) \/ LessEqZero(v) \/ GreaterOne(v) \/ ToNumber(v) = Num(1, 1)

\* the condition under which the setter throws
ChunkRejected(v) == IsNaN(v) \/ LessEqZero(v) \/ GreaterOne(v)

\* mutant of setChunkOfWorkPercentage: the weight kept in one place for all
\* job instances
setChunkShared(j, v) ==
    /\ inst' = IF ChunkRejected(v) THEN inst
               ELSE [k \in Instances |->
                        [inst[k] EXCEPT !.chunkOfWorkPercentage = v]]
    /\ last' = Step("setChunkOfWorkPercentage", j, <<v>>, ChunkRejected(v), NoWrite, TRUE)
    /\ calls' = calls + 1
    /\ UNCHANGED <<inits, idGen, job_run, job_log, pending, diag, failures, phase,
                   inOrder, runlog, initArgs>>

setChunkOfWorkPercentage(j, v) ==
    /\ inst' = IF ChunkRejected(v) THEN inst
               ELSE [inst EXCEPT ![j].chunkOfWorkPercentage = v]
    /\ last' = Step("setChunkOfWorkPercentage", j, <<v>>, ChunkRejected(v), NoWrite, TRUE)
    /\ calls' = calls + 1
    /\ UNCHANGED <<inits, idGen, job_run, job_log, pending, diag, failures, phase,
                   inOrder, runlog, initArgs>>

(***************************************************************************)
(* run(cb): the base prototype throws                                      *)
(***************************************************************************)
\* mutant of RunBody: the callback handed an error, nothing thrown
RunBodyCallsBack == [threw |-> FALSE, cbCalls |-> 1]

\* throw new Error('This function must be overriden by an extending prototype')
RunBody == [threw |-> TRUE, cbCalls |-> 0]

run(j) ==
    /\ inst' = [inst EXCEPT ![j].cbCalls = @ + RunBody.cbCalls]
    /\ last' = Step("run", j, <<>>, RunBody.threw, NoWrite, TRUE)
    /\ calls' = calls + 1
    /\ UNCHANGED <<inits, idGen, job_run, job_log, pending, diag, failures, phase,
                   inOrder, runlog, initArgs>>

\* this.dao is null until init: a method call on it throws a TypeError
DaoMissing(j) == ~inst[j].inited

(***************************************************************************)
(* log(pattern, args...)                                                   *)
(***************************************************************************)
\* args[0] = this.name + ': ' + args[0]
LogPrefixed(j, args) == Pieces(ToStr(inst[j].name)) \o <<": ">> \o args[1]

\* the message of the persisted statement
LogMessage(j, args) ==
    IF Len(args) > 1 THEN Format(LogPrefixed(j, args), Tail(args))
    ELSE Join(LogPrefixed(j, args))

\* mutant of LogStatement: the statement keyed by the job's id
LogStatementKeyed(j, args) ==
    Doc(Str(JOB_LOG_STORE_NAME), inst[j].id, inst[j].name, Undef, Undef, Undef,
        inst[j].id, WorkerId, Str(LogMessage(j, args)))

LogStatement(j, args) ==
    Doc(Str(JOB_LOG_STORE_NAME), Undef, inst[j].name, Undef, Undef, Undef,
        inst[j].id, WorkerId, Str(LogMessage(j, args)))

\* this.dao.update(statement)
LogWrites(j, args) ==
    IF Len(args) > 0
    THEN <<Write("update", JOB_LOG_STORE_NAME, NoDoc, LogStatement(j, args),
                 NoUpdates, j, "log", args)>>
    ELSE <<>>

\* pb.log.debug.apply(pb.log, args)
LogDiag(j, args) ==
    IF Len(args) > 0
    THEN SetToBag({[level |-> "debug",
                    message |-> Format(LogPrefixed(j, args), Tail(args))]})
    ELSE EmptyBag

\* this.dao.update(statement) throws on an instance without a dao, before
\* pb.log.debug is reached; log() without arguments never touches the dao
LogThrows(j, args) == Len(args) > 0 /\ DaoMissing(j)

log(j, args) ==
    /\ pending' = IF LogThrows(j, args) THEN pending
                  ELSE pending \o LogWrites(j, args)
    /\ diag' = IF LogThrows(j, args) THEN diag
               ELSE diag (+) LogDiag(j, args)
    /\ last' = Step("log", j, args, LogThrows(j, args), NoWrite, TRUE)
    /\ calls' = calls + 1
    /\ UNCHANGED <<inits, inst, idGen, job_run, job_log, failures, phase, inOrder, runlog, initArgs>>

(***************************************************************************)
(* onStart(status)                                                         *)
(***************************************************************************)
\* mutant of StartJob: the status argument persisted without its default
StartJobNoDefault(j, status) ==
    [GetIDWhere(getId(j)) EXCEPT
        !.object_type = Str(JOB_STORE_NAME),
        !.name        = inst[j].name,
        !.status      = status,
        !.progress    = Num(0, 1)]

StartJob(j, status) ==
    [GetIDWhere(getId(j)) EXCEPT
        !.object_type = Str(JOB_STORE_NAME),
        !.name        = inst[j].name,
        !.status      = Or(status, Str(DEFAULT_START_STATUS)),
        !.progress    = Num(0, 1)]

\* this.dao.save(job, callback)
StartWrites(j, status) ==
    <<Write("save", JOB_STORE_NAME, NoDoc, StartJob(j, status), NoUpdates,
            j, "onStart", <<status>>)>>

\* this.dao.save(job, ...) throws on an instance without a dao
StartThrows(j) == DaoMissing(j)

onStart(j, status) ==
    /\ pending' = IF StartThrows(j) THEN pending
                  ELSE pending \o StartWrites(j, status)
    /\ phase' = IF StartThrows(j) THEN phase
                ELSE [phase EXCEPT ![j] =
                         IF @ = "ready" THEN "started" ELSE "offscript"]
    /\ last' = Step("onStart", j, <<status>>, StartThrows(j), NoWrite, TRUE)
    /\ calls' = calls + 1
    /\ UNCHANGED <<inits, inst, idGen, job_run, job_log, diag, failures, inOrder, runlog, initArgs>>

(***************************************************************************)
(* onUpdate(progressIncrement, status)                                     *)
(***************************************************************************)
UpdateLogArgs(j, progressIncrement, status) ==
    <<<<"Updating job [", "%s", ":", "%s", "] by ", "%s",
        " percent with status: ", "%s">>,
      getId(j), inst[j].name, progressIncrement, status>>

\* mutant of UpdateUpdates: the progress overwritten, not incremented
UpdateUpdatesAbsolute(progressIncrement, status) ==
    [inc |-> <<>>,
     set |-> (IF IsFloat(progressIncrement)
              THEN <<<<"progress", progressIncrement>>>> ELSE <<>>)
             \o (IF ValidateNonEmptyStr(status)
                 THEN <<<<"status", status>>>> ELSE <<>>)]

\* mutant of UpdateUpdates: the increment scaled by a work weight of 1/2
UpdateUpdatesScaled(progressIncrement, status) ==
    [inc |-> IF IsFloat(progressIncrement)
             THEN LET g == GCD(Abs(progressIncrement.n), 2 * progressIncrement.d)
                  IN  <<<<"progress", Num(progressIncrement.n \div g,
                                          (2 * progressIncrement.d) \div g)>>>>
             ELSE <<>>,
     set |-> IF ValidateNonEmptyStr(status)
             THEN <<<<"status", status>>>> ELSE <<>>]

UpdateUpdates(progressIncrement, status) ==
    [inc |-> IF IsFloat(progressIncrement)
             THEN <<<<"progress", progressIncrement>>>> ELSE <<>>,
     set |-> IF ValidateNonEmptyStr(status)
             THEN <<<<"status", status>>>> ELSE <<>>]

\* updates !== {}: an object is never identical to a fresh literal
NeedsUpdate(updates) == TRUE

\* mutant of UpdateWrites: the increment and the status sent as two updates
UpdateWritesSplit(j, progressIncrement, status) ==
    <<Write("updateFields", JOB_STORE_NAME, GetIDWhere(getId(j)), NoDoc,
            UpdateUpdates(progressIncrement, Undef), j, "onUpdate",
            <<progressIncrement, status>>),
      Write("updateFields", JOB_STORE_NAME, GetIDWhere(getId(j)), NoDoc,
            UpdateUpdates(Undef, status), j, "onUpdate",
            <<progressIncrement, status>>)>>

\* this.dao.updateFields(JOB_STORE_NAME, query, updates, callback)
UpdateWrites(j, progressIncrement, status) ==
    IF NeedsUpdate(UpdateUpdates(progressIncrement, status))
    THEN <<Write("updateFields", JOB_STORE_NAME, GetIDWhere(getId(j)), NoDoc,
                 UpdateUpdates(progressIncrement, status), j, "onUpdate",
                 <<progressIncrement, status>>)>>
    ELSE <<>>

\* the this.log(...) that opens onUpdate throws on an instance without a
\* dao, and nothing after it runs
UpdateThrows(j, progressIncrement, status) ==
    LogThrows(j, UpdateLogArgs(j, progressIncrement, status))

onUpdate(j, progressIncrement, status) ==
    LET largs  == UpdateLogArgs(j, progressIncrement, status)
        threw  == UpdateThrows(j, progressIncrement, status)
    IN  /\ pending' = IF threw THEN pending
                      ELSE pending \o LogWrites(j, largs)
                                   \o UpdateWrites(j, progressIncrement, status)
        /\ diag' = IF threw THEN diag ELSE diag (+) LogDiag(j, largs)
        /\ phase' = IF threw THEN phase
                    ELSE [phase EXCEPT ![j] =
                             IF @ = "started" THEN "started" ELSE "offscript"]
        /\ last' = Step("onUpdate", j, <<progressIncrement, status>>, threw,
                        NoWrite, TRUE)
        /\ calls' = calls + 1
        /\ UNCHANGED <<inits, inst, idGen, job_run, job_log, failures, inOrder, runlog, initArgs>>

(***************************************************************************)
(* onCompleted(status, err)                                                *)
(***************************************************************************)
\* mutants of DoneStatus: the error in first place taken for no status; the
\* two defaults swapped; an error always ending in ERRORED
DoneStatusIgnoresError(status, err) ==
    IF IsError(status) \/ ~Truthy(status) THEN Str(DEFAULT_DONE_STATUS)
    ELSE status

DoneStatusSwapped(status, err) ==
    IF IsError(status) THEN Str(DEFAULT_DONE_STATUS)
    ELSE IF ~Truthy(status) THEN Str(DEFAULT_ERROR_STATUS)
    ELSE status

DoneStatusErrorWins(status, err) ==
    IF IsError(status) \/ IsError(err) THEN Str(DEFAULT_ERROR_STATUS)
    ELSE IF ~Truthy(status) THEN Str(DEFAULT_DONE_STATUS)
    ELSE status

\* status and err after the reinterpretation of the arguments
DoneStatus(status, err) ==
    IF IsError(status) THEN Str(DEFAULT_ERROR_STATUS)
    ELSE IF ~Truthy(status) THEN Str(DEFAULT_DONE_STATUS)
    ELSE status

DoneErr(status, err) == IF IsError(status) THEN status ELSE err

\* err.stack
Stack(err) == IF IsError(err) THEN Str(err.s) ELSE Undef

DoneLogArgs(j, status, err) ==
    <<<<"Setting job [", "%s", ":", "%s", "] as completed with status: ", "%s">>,
      getId(j), inst[j].name, DoneStatus(status, err)>>

\* mutant of DoneSets: the progress left as it is
DoneSetsKeepProgress(status, err) ==
    [inc |-> <<>>,
     set |-> <<<<"status", DoneStatus(status, err)>>,
               <<"error", IF Truthy(DoneErr(status, err))
                          THEN Stack(DoneErr(status, err)) ELSE Undef>>>>]

\* mutant of DoneSets: the error written only when there is one
DoneSetsErrorKept(status, err) ==
    [inc |-> <<>>,
     set |-> <<<<"status", DoneStatus(status, err)>>,
               <<"progress", Num(100, 1)>>>>
             \o (IF Truthy(DoneErr(status, err))
                 THEN <<<<"error", Stack(DoneErr(status, err))>>>> ELSE <<>>)]

DoneSets(status, err) ==
    [inc |-> <<>>,
     set |-> <<<<"status", DoneStatus(status, err)>>,
               <<"progress", Num(100, 1)>>,
               <<"error", IF Truthy(DoneErr(status, err))
                          THEN Stack(DoneErr(status, err)) ELSE Undef>>>>]

\* this.dao.updateFields(JOB_STORE_NAME, query, sets, callback)
DoneWrites(j, status, err) ==
    <<Write("updateFields", JOB_STORE_NAME, GetIDWhere(getId(j)), NoDoc,
            DoneSets(status, err), j, "onCompleted", <<status, err>>)>>

\* the this.log(...) of onCompleted throws on an instance without a dao,
\* and nothing after it runs
DoneThrows(j, status, err) == LogThrows(j, DoneLogArgs(j, status, err))

onCompleted(j, status, err) ==
    LET largs  == DoneLogArgs(j, status, err)
        threw  == DoneThrows(j, status, err)
    IN  /\ pending' = IF threw THEN pending
                      ELSE pending \o LogWrites(j, largs)
                                   \o DoneWrites(j, status, err)
        /\ diag' = IF threw THEN diag ELSE diag (+) LogDiag(j, largs)
        /\ phase' = IF threw THEN phase
                    ELSE [phase EXCEPT ![j] =
                             IF @ = "started" THEN "completed" ELSE "offscript"]
        /\ last' = Step("onCompleted", j, <<status, err>>, threw, NoWrite, TRUE)
        /\ calls' = calls + 1
        /\ UNCHANGED <<inits, inst, idGen, job_run, job_log, failures, inOrder, runlog, initArgs>>

(***************************************************************************)
(* The store settles a dispatched write: it applies it and calls the       *)
(* callback without an error, or fails it and calls the callback with one. *)
(* Nothing orders the writes in flight: any of them may settle next.       *)
(***************************************************************************)
Remove(seq, i) == SubSeq(seq, 1, i - 1) \o SubSeq(seq, i + 1, Len(seq))

\* the collection after the store applied write w to it
Applied(coll, w) ==
    IF w.op = "updateFields" THEN DaoUpdateFields(coll, w.query, w.updates)
    ELSE DaoSave(coll, w.doc)

\* the key of the job_run document a write is about
WriteKey(w) == IF w.op = "updateFields" THEN w.query ELSE w.doc

\* write i settles before an earlier write to the same job_run document
Overtakes(i) ==
    \E k \in 1..(i - 1) :
        /\ pending[k].coll = JOB_STORE_NAME
        /\ Matches(WriteKey(pending[k]), WriteKey(pending[i]))

\* the progress of the document a write is about, Undef when there is none
ProgressAt(coll, w) ==
    IF Selected(coll, WriteKey(w)) = {} THEN Undef
    ELSE coll[Min(Selected(coll, WriteKey(w)))].progress

LastTwo(seq) == IF Len(seq) > 2 THEN Tail(seq) ELSE seq

\* mutant of CallbackDiag: the callback of onUpdate drops the error, the
\* other two log it under one message
CallbackDiagSilent(w, err) ==
    IF ~IsError(err) \/ w.from = "onUpdate" THEN EmptyBag
    ELSE SetToBag({[level |-> "error", message |->
                        Format(<<"JobRunner: Failed ", "%s">>, <<Stack(err)>>)]})

\* the callbacks: if (util.isError(err)) pb.log.error(...)
CallbackDiag(w, err) ==
    IF ~IsError(err) THEN EmptyBag
    ELSE CASE w.from = "onStart" ->
                SetToBag({[level |-> "error", message |->
                    Format(<<"JobRunner: Failed to mark job as started ", "%s">>,
                           <<Stack(err)>>)]})
           [] w.from = "onUpdate" ->
                SetToBag({[level |-> "error", message |->
                    Format(<<"JobRunner: Failed to update job progress - ">>,
                           <<Stack(err)>>)]})
           [] w.from = "onCompleted" ->
                SetToBag({[level |-> "error", message |->
                    Format(<<"JobRunner: Failed to update job as completed - ", "%s">>,
                           <<Stack(err)>>)]})
           [] OTHER -> EmptyBag

applyWrite(i) ==
    LET w == pending[i]
    IN  /\ pending' = Remove(pending, i)
        /\ IF w.coll = JOB_STORE_NAME
           THEN /\ job_run' = Applied(job_run, w)
                /\ job_log' = job_log
                /\ inOrder' = (inOrder /\ ~Overtakes(i))
                /\ runlog' = LastTwo(Append(runlog,
                                 [w |-> w, before |-> ProgressAt(job_run, w)]))
           ELSE /\ job_log' = Applied(job_log, w)
                /\ UNCHANGED <<inits, job_run, inOrder, runlog>>
        /\ diag' = diag (+) CallbackDiag(w, Null)
        /\ last' = Step("settle", "store", <<>>, FALSE, w, TRUE)
        /\ UNCHANGED <<inits, inst, idGen, calls, failures, phase, initArgs>>

failWrite(i) ==
    LET w == pending[i]
    IN  /\ failures < MaxFailures
        /\ pending' = Remove(pending, i)
        /\ diag' = diag (+) CallbackDiag(w, StoreError)
        /\ inOrder' = (inOrder /\ w.coll # JOB_STORE_NAME)
        /\ failures' = failures + 1
        /\ last' = Step("settle", "store", <<>>, FALSE, w, FALSE)
        /\ UNCHANGED <<inits, inst, idGen, job_run, job_log, calls, phase, runlog, initArgs>>

(***************************************************************************)
(* The arguments the callers of the model pass.                            *)
(***************************************************************************)
AnError == Err("Error: boom")
FramedError == Err("Error: boom\n    at f (x.js:1:1)")

NameArgs        == {Undef, Str("reindex")}
JobIdArgs       == {Undef, Str(""), Str("job-7")}
StartStatusArgs == {Undef, Str("QUEUED")}
DoneErrArgs     == {Undef, AnError}
\* onUpdate(progressIncrement, status) and onCompleted(status, err)
UpdateArgs      == {<<Num(10, 1), Undef>>, <<Num(50, 1), Undef>>,
                    <<Num(50, 1), Str("RUNNING")>>, <<Undef, Str("RUNNING")>>}
DoneArgs        == {<<Undef, Undef>>, <<Str(""), Undef>>, <<AnError, Undef>>,
                    <<Undef, AnError>>, <<Str("PARTIAL"), Undef>>,
                    <<Str("PARTIAL"), AnError>>}
LifeUpdateArgs  == {<<Num(10, 1), Undef>>, <<Undef, Undef>>,
                    <<Num(50, 1), Str("PAUSED")>>}
LogNameArgs     == {Undef, Str("reindex"), Str("50%s")}
\* log(pattern, args...)
LogArgs         == {<<>>, <<<<"done">>>>, <<<<"x=", "%s">>, Num(5, 1)>>,
                    <<<<"x=", "%s">>, Num(5, 1), Str("y")>>,
                    <<<<"x=", "%s">>, AnError>>, <<<<"failed">>, FramedError>>}
WeightArgs      == {Num(1, 2), Num(1, 3), Num(1, 1), Num(0, 1), Num(-1, 2),
                    Num(3, 2), NaN, Undef, Null, Str("abc"), Str(""),
                    Str("0.5"), Str("2"), True, False}

(***************************************************************************)
(* Spec: two job instances of one process, each initialised once, their    *)
(* calls interleaved in any order, before init as well as after it, each   *)
(* call with one or two representative arguments, and a store that applies *)
(* every write, in any order.                                              *)
(***************************************************************************)
DoInit == \E j \in Instances, jobId \in JobIdArgs :
              ~inst[j].inited /\ init(j, Str("reindex"), jobId)

DoSetChunk == \E j \in Instances :
                  calls < MaxCalls /\ setChunkOfWorkPercentage(j, Num(1, 2))

DoRun == \E j \in Instances : calls < MaxCalls /\ run(j)

DoLog == \E j \in Instances :
             /\ calls < MaxCalls
             /\ log(j, <<<<"x=", "%s">>, Num(5, 1)>>)
             /\ Len(pending') <= MaxPending

DoStart == \E j \in Instances, status \in StartStatusArgs :
               /\ calls < MaxCalls
               /\ onStart(j, status)
               /\ Len(pending') <= MaxPending

DoUpdate == \E j \in Instances :
                /\ calls < MaxCalls
                /\ onUpdate(j, Num(10, 1), Undef)
                /\ Len(pending') <= MaxPending

DoCompleted == \E j \in Instances, err \in DoneErrArgs :
                   /\ calls < MaxCalls
                   /\ onCompleted(j, Undef, err)
                   /\ Len(pending') <= MaxPending

DoApply == \E i \in DOMAIN pending : applyWrite(i)

DoFail == \E i \in DOMAIN pending : failWrite(i)

Next ==
    \/ DoInit
    \/ DoSetChunk
    \/ DoRun
    \/ DoLog
    \/ DoStart
    \/ DoUpdate
    \/ DoCompleted
    \/ DoApply

Spec == Init /\ [][Next]_vars

(***************************************************************************)
(* SpecChunk: the work weight of two job instances set to values of every  *)
(* type a caller can pass.                                                 *)
(***************************************************************************)
ChunkSet == \E j \in Instances, v \in WeightArgs :
                calls < MaxChunkCalls /\ setChunkOfWorkPercentage(j, v)

NextChunk == ChunkSet

SpecChunk == Init /\ [][NextChunk]_vars

(***************************************************************************)
(* SpecJob: one job instance whose run follows the lifecycle the base       *)
(* prototype asks for: onStart once, then onUpdate any number of times,    *)
(* then onCompleted once.  The store applies every write, in any order.    *)
(***************************************************************************)
JobInit == \E name \in NameArgs :
               ~inst["J1"].inited /\ init("J1", name, Undef)

JobStart == \E status \in StartStatusArgs :
                /\ calls < MaxJobCalls
                /\ phase["J1"] = "ready"
                /\ onStart("J1", status)
                /\ Len(pending') <= MaxPending

JobUpdate == \E a \in UpdateArgs :
                 /\ calls < MaxJobCalls
                 /\ phase["J1"] = "started"
                 /\ onUpdate("J1", a[1], a[2])
                 /\ Len(pending') <= MaxPending

JobCompleted == \E a \in DoneArgs :
                    /\ calls < MaxJobCalls
                    /\ phase["J1"] = "started"
                    /\ onCompleted("J1", a[1], a[2])
                    /\ Len(pending') <= MaxPending

NextJob ==
    \/ JobInit
    \/ JobStart
    \/ JobUpdate
    \/ JobCompleted
    \/ DoApply

SpecJob == Init /\ [][NextJob]_vars

(***************************************************************************)
(* SpecFail: the same lifecycle against a store that may fail a write.     *)
(***************************************************************************)
FailInit == ~inst["J1"].inited /\ init("J1", Str("reindex"), Undef)

FailStart == /\ calls < MaxJobCalls
             /\ phase["J1"] = "ready"
             /\ onStart("J1", Undef)
             /\ Len(pending') <= MaxPending

FailUpdate == \E p \in {Num(10, 1), Undef} :
                  /\ calls < MaxJobCalls
                  /\ phase["J1"] = "started"
                  /\ onUpdate("J1", p, Undef)
                  /\ Len(pending') <= MaxPending

FailCompleted == \E err \in DoneErrArgs :
                     /\ calls < MaxJobCalls
                     /\ phase["J1"] = "started"
                     /\ onCompleted("J1", Undef, err)
                     /\ Len(pending') <= MaxPending

NextFail ==
    \/ FailInit
    \/ FailStart
    \/ FailUpdate
    \/ FailCompleted
    \/ DoApply
    \/ DoFail

SpecFail == Init /\ [][NextFail]_vars

(***************************************************************************)
(* SpecLog: one job instance, under a name of the caller's choice, that    *)
(* logs statements, before init as well as after it; the store applies the *)
(* writes in any order.                                                    *)
(***************************************************************************)
LogInit == \E name \in LogNameArgs :
               ~inst["J1"].inited /\ init("J1", name, Undef)

LogCall == \E a \in LogArgs :
               /\ calls < MaxLogCalls
               /\ log("J1", a)
               /\ Len(pending') <= MaxFlight

NextLog ==
    \/ LogInit
    \/ LogCall
    \/ DoApply

SpecLog == Init /\ [][NextLog]_vars

(***************************************************************************)
(* SpecLife: one job instance whose caller makes the calls in any order    *)
(* and any number of times, before init as well as after it; the store     *)
(* applies the writes in any order.                                        *)
(***************************************************************************)
LifeInit == ~inst["J1"].inited /\ init("J1", Str("reindex"), Undef)

LifeSetChunk == /\ calls < MaxLifeCalls
                /\ setChunkOfWorkPercentage("J1", Num(1, 2))

LifeStart == /\ calls < MaxLifeCalls
             /\ onStart("J1", Undef)
             /\ Len(pending') <= MaxFlight

LifeUpdate == \E a \in LifeUpdateArgs :
                  /\ calls < MaxLifeCalls
                  /\ onUpdate("J1", a[1], a[2])
                  /\ Len(pending') <= MaxFlight

LifeCompleted == /\ calls < MaxLifeCalls
                 /\ onCompleted("J1", Undef, Undef)
                 /\ Len(pending') <= MaxFlight

NextLife ==
    \/ LifeInit
    \/ LifeSetChunk
    \/ LifeStart
    \/ LifeUpdate
    \/ LifeCompleted
    \/ DoApply

SpecLife == Init /\ [][NextLife]_vars

(***************************************************************************)
(* SpecDone: one started job whose caller reports the completion more than *)
(* once; the store applies the writes in any order.                        *)
(***************************************************************************)
DoneInit == ~inst["J1"].inited /\ init("J1", Str("reindex"), Undef)

DoneStart == /\ calls < MaxDoneCalls
             /\ phase["J1"] = "ready"
             /\ onStart("J1", Undef)
             /\ Len(pending') <= MaxFlight

DoneAgain == \E a \in DoneArgs :
                 /\ calls < MaxDoneCalls
                 /\ phase["J1"] \in {"started", "completed", "offscript"}
                 /\ onCompleted("J1", a[1], a[2])
                 /\ Len(pending') <= MaxFlight

NextDone ==
    \/ DoneInit
    \/ DoneStart
    \/ DoneAgain
    \/ DoApply

SpecDone == Init /\ [][NextDone]_vars

(***************************************************************************)
(* SpecInit: two job instances whose callers may call init again at any    *)
(* time, between calls of the other methods.                               *)
(***************************************************************************)
AnyInit == \E j \in Instances, jobId \in JobIdArgs :
               /\ inits < MaxInits
               /\ init(j, Str("reindex"), jobId)

AnySetChunk == \E j \in Instances :
                   /\ calls < MaxInitCalls
                   /\ setChunkOfWorkPercentage(j, Num(1, 2))

AnyLog == \E j \in Instances :
              /\ calls < MaxInitCalls
              /\ log(j, <<<<"done">>>>)
              /\ Len(pending') <= MaxPending

AnyStart == \E j \in Instances :
                /\ calls < MaxInitCalls
                /\ onStart(j, Undef)
                /\ Len(pending') <= MaxPending

AnyUpdate == \E j \in Instances :
                 /\ calls < MaxInitCalls
                 /\ onUpdate(j, Num(10, 1), Undef)
                 /\ Len(pending') <= MaxPending

AnyCompleted == \E j \in Instances :
                    /\ calls < MaxInitCalls
                    /\ onCompleted(j, Undef, Undef)
                    /\ Len(pending') <= MaxPending

NextInit ==
    \/ AnyInit
    \/ AnySetChunk
    \/ AnyLog
    \/ AnyStart
    \/ AnyUpdate
    \/ AnyCompleted
    \/ DoApply

SpecInit == Init /\ [][NextInit]_vars

(***************************************************************************)
(* What the properties below read off the state.                           *)
(***************************************************************************)
\* the Job Run Records persisted under an id
RunDocs(id) == {i \in DOMAIN job_run : job_run[i]._id = id}

\* the settled write of the last step, when the store applied it
AppliedFrom(handler) ==
    /\ last.act = "settle"
    /\ last.ok
    /\ last.w.from = handler

\* every Job Run Record of instance j has these fields
RecordIs(j, status, progress, error) ==
    \A i \in RunDocs(getId(j)) :
        /\ job_run[i].status = status
        /\ job_run[i].progress = progress
        /\ job_run[i].error = error

\* the last write applied to job_run
LastRun == runlog[Len(runlog)]

(***************************************************************************)
(* C1.  A job that calls onStart, then onUpdate any number of times, then  *)
(* onCompleted() without arguments, and whose writes were all applied, in  *)
(* the order of the calls, leaves exactly one Job Run Record under its id: *)
(* name as given to init (the id when no name was given), status           *)
(* COMPLETED, progress 100, no error.                                      *)
(***************************************************************************)
C1_EndToEnd ==
    ( /\ phase["J1"] = "completed"
      /\ pending = <<>>
      /\ inOrder
      /\ runlog # <<>>
      /\ LastRun.w.from = "onCompleted"
      /\ LastRun.w.args = <<Undef, Undef>> )
    => /\ Cardinality(RunDocs(getId("J1"))) = 1
       /\ RecordIs("J1", Str(DEFAULT_DONE_STATUS), Num(100, 1), Undef)
       /\ \A i \in RunDocs(getId("J1")) :
            job_run[i].name = Or(initArgs["J1"][1], getId("J1"))

\* the scenario of the claim: name "reindex", no jobId, onStart(),
\* onUpdate(50, "RUNNING"), onUpdate(50), onCompleted(), all writes applied
C1_Witness ==
    /\ initArgs["J1"] = <<Str("reindex"), Undef>>
    /\ phase["J1"] = "completed"
    /\ pending = <<>>
    /\ inOrder
    /\ calls = 4
    /\ Len(runlog) = 2
    /\ runlog[1].w.args = <<Num(50, 1), Undef>>
    /\ runlog[1].before = Num(50, 1)
    /\ runlog[2].w.args = <<Undef, Undef>>
    /\ BagIn([level |-> "debug", message |->
                "reindex: Updating job [5f01:reindex] by 50 percent with status: RUNNING"],
             diag)
    /\ \E i \in DOMAIN job_run :
         /\ job_run[i].name = Str("reindex")
         /\ job_run[i].status = Str("COMPLETED")
         /\ job_run[i].progress = Num(100, 1)

(***************************************************************************)
(* C2.  Once the store has applied the write of onCompleted(someError) to  *)
(* the job's record, the record has status ERRORED, progress 100 and the   *)
(* error's stack as its error.                                             *)
(***************************************************************************)
C2_ErrorCompletion ==
    ( /\ AppliedFrom("onCompleted")
      /\ IsError(last.w.args[1]) )
    => RecordIs(last.w.by, Str("ERRORED"), Num(100, 1), Str(last.w.args[1].s))

C2_Witness ==
    /\ AppliedFrom("onCompleted")
    /\ last.w.args = <<AnError, Undef>>
    /\ \E i \in RunDocs(getId("J1")) :
         /\ job_run[i].status = Str("ERRORED")
         /\ job_run[i].error = Str("Error: boom")

(***************************************************************************)
(* C3.  Once the store has applied the write of onCompleted() (no status,  *)
(* no error), the record has status COMPLETED, progress 100 and no error,  *)
(* whatever it held before.                                                *)
(***************************************************************************)
C3_PlainCompletion ==
    ( /\ AppliedFrom("onCompleted")
      /\ ~IsError(last.w.args[1])
      /\ ~Truthy(last.w.args[1])
      /\ ~Truthy(last.w.args[2]) )
    => RecordIs(last.w.by, Str("COMPLETED"), Num(100, 1), Undef)

\* the record stood at progress 60 with status QUEUED when the write arrived
C3_Witness ==
    /\ AppliedFrom("onCompleted")
    /\ last.w.args = <<Undef, Undef>>
    /\ LastRun.before = Num(60, 1)
    /\ \E i \in RunDocs(getId("J1")) :
         /\ job_run[i].status = Str("COMPLETED")
         /\ job_run[i].progress = Num(100, 1)

(***************************************************************************)
(* C4.  Once the store has applied the write of onCompleted(status, error) *)
(* with a non-empty status string, the record has that status (not         *)
(* ERRORED), progress 100 and the error's stack as its error.              *)
(***************************************************************************)
C4_StatusWithError ==
    ( /\ AppliedFrom("onCompleted")
      /\ ValidateNonEmptyStr(last.w.args[1])
      /\ IsError(last.w.args[2]) )
    => RecordIs(last.w.by, last.w.args[1], Num(100, 1), Str(last.w.args[2].s))

C4_Witness ==
    /\ AppliedFrom("onCompleted")
    /\ last.w.args = <<Str("PARTIAL"), AnError>>
    /\ \E i \in RunDocs(getId("J1")) :
         /\ job_run[i].status = Str("PARTIAL")
         /\ job_run[i].progress = Num(100, 1)
         /\ job_run[i].error = Str("Error: boom")

(***************************************************************************)
(* C5.  onStart is an upsert keyed by the job's id.  Once the store has    *)
(* applied the write of onStart, there is exactly one Job Run Record under *)
(* the job's id: status RUNNING when onStart had no status argument, the   *)
(* argument otherwise, progress 0, the job's name.  No id ever has two     *)
(* records, however often onStart is called for it.                        *)
(***************************************************************************)
C5_StartUpsert ==
    /\ \A i, k \in DOMAIN job_run : job_run[i]._id = job_run[k]._id => i = k
    /\ AppliedFrom("onStart") =>
         /\ Cardinality(RunDocs(getId(last.w.by))) = 1
         /\ RecordIs(last.w.by,
                     IF last.w.args[1] = Undef THEN Str("RUNNING") ELSE last.w.args[1],
                     Num(0, 1), Undef)
         /\ \A i \in RunDocs(getId(last.w.by)) :
                job_run[i].name = inst[last.w.by].name

\* the second onStart of a job applied after its first one
C5_Witness ==
    /\ AppliedFrom("onStart")
    /\ Len(runlog) = 2
    /\ runlog[1].w.from = "onStart"
    /\ runlog[1].w.by = last.w.by
    /\ runlog[2].w.args = <<Str("QUEUED")>>
    /\ Cardinality(RunDocs(getId(last.w.by))) = 1
    /\ RecordIs(last.w.by, Str("QUEUED"), Num(0, 1), Undef)

(***************************************************************************)
(* C6.  Increments add up: when the last two writes applied to a record    *)
(* are those of onUpdate(a) and onUpdate(b) with numbers a and b, the      *)
(* progress of the record is its progress before the first plus a + b.     *)
(***************************************************************************)
C6_Additive ==
    ( /\ Len(runlog) = 2
      /\ runlog[1].w.from = "onUpdate"
      /\ runlog[2].w.from = "onUpdate"
      /\ IsFloat(runlog[1].w.args[1])
      /\ IsFloat(runlog[2].w.args[1])
      /\ runlog[1].w.query = runlog[2].w.query
      /\ IsFinite(runlog[1].before) )
    => \A i \in RunDocs(getId(LastRun.w.by)) :
          job_run[i].progress =
              AddNum(runlog[1].before,
                     AddNum(runlog[1].w.args[1], runlog[2].w.args[1]))

\* onUpdate(10) twice on a record that stood at 50: 70
C6_Witness ==
    /\ Len(runlog) = 2
    /\ runlog[1].w.from = "onUpdate"
    /\ runlog[2].w.from = "onUpdate"
    /\ runlog[1].w.args[1] = Num(10, 1)
    /\ runlog[2].w.args[1] = Num(10, 1)
    /\ runlog[1].before = Num(50, 1)
    /\ \E i \in RunDocs(getId("J1")) : job_run[i].progress = Num(70, 1)

\* this step is the callback of a lifecycle write that the store failed
FailedLifecycleWrite ==
    /\ last'.act = "settle"
    /\ ~last'.ok
    /\ last'.w.from \in {"onStart", "onUpdate", "onCompleted"}

(***************************************************************************)
(* C7.  A write of onStart, onUpdate or onCompleted that the store fails   *)
(* reaches nobody but the log: the step adds one error entry to the        *)
(* diagnostic sink and changes neither the collections nor the job         *)
(* instance, whose calls had returned before and go on afterwards.  (The   *)
(* job is an initialised one: it has the dao the write goes through.)      *)
(***************************************************************************)
C7_FailureOnlyLogged ==
    [][ /\ ( /\ last'.act \in {"onStart", "onUpdate", "onCompleted"}
             /\ inst[last'.by].inited ) => ~last'.threw
        /\ FailedLifecycleWrite =>
          /\ job_run' = job_run
          /\ job_log' = job_log
          /\ inst' = inst
          /\ phase' = phase
          /\ calls' = calls
          /\ \E e \in BagToSet(diag') :
                /\ e.level = "error"
                /\ diag' = diag (+) SetToBag({e}) ]_vars

\* the write of onUpdate failed, the job completed all the same and the
\* record shows it
C7_Witness ==
    /\ failures = 1
    /\ BagIn([level |-> "error", message |->
                "JobRunner: Failed to update job progress -  Error: write failed"],
             diag)
    /\ phase["J1"] = "completed"
    /\ AppliedFrom("onCompleted")
    /\ RunDocs(getId("J1")) # {}
    /\ RecordIs("J1", Str("COMPLETED"), Num(100, 1), Undef)

\* a number between 0 (exclusive) and 1 (inclusive)
InUnitInterval(v) == IsFinite(v) /\ v.n > 0 /\ v.n <= v.d

(***************************************************************************)
(* C8.  setChunkOfWorkPercentage throws for every value that is not a      *)
(* number in (0, 1] and then leaves the weight as it was, so the weight of *)
(* every job instance is a number in (0, 1] at all times.                  *)
(***************************************************************************)
C8_OutsideRejected ==
    [][ /\ ( /\ last'.act = "setChunkOfWorkPercentage"
             /\ ~InUnitInterval(last'.args[1]) )
           => /\ last'.threw
              /\ inst'[last'.by].chunkOfWorkPercentage
                    = inst[last'.by].chunkOfWorkPercentage
        /\ \A j \in Instances : InUnitInterval(inst'[j].chunkOfWorkPercentage)
      ]_vars

(***************************************************************************)
(* C9.  For every number v in (0, 1], setChunkOfWorkPercentage(v) returns  *)
(* normally and getChunkOfWorkPercentage() then returns v, whatever calls  *)
(* of the setter came before.                                              *)
(***************************************************************************)
C9_RoundTrip ==
    ( /\ last.act = "setChunkOfWorkPercentage"
      /\ InUnitInterval(last.args[1]) )
    => /\ ~last.threw
       /\ getChunkOfWorkPercentage(last.by) = last.args[1]

\* the third call of the setter, with the upper limit 1, on an instance
\* whose weight was not 1 any more
C9_Witness ==
    /\ calls = 3
    /\ last.act = "setChunkOfWorkPercentage"
    /\ last.args = <<Num(1, 1)>>
    /\ ~last.threw
    /\ getChunkOfWorkPercentage(last.by) = Num(1, 1)
    /\ \E j \in Instances : getChunkOfWorkPercentage(j) = Num(1, 3)

(***************************************************************************)
(* C10.  init gives the job the jobId it was passed when that is not       *)
(* empty, and otherwise a generated, non-empty identifier that no other    *)
(* job instance has; a call of onStart, onUpdate, onCompleted, log, run or *)
(* setChunkOfWorkPercentage, and the store settling a write, leave the id  *)
(* of every job as it is.                                                  *)
(***************************************************************************)
C10_IdAssigned ==
    [][ \A j \in Instances :
          IF last'.act = "init" /\ last'.by = j
          THEN IF Truthy(last'.args[2])
               THEN inst'[j].id = last'.args[2]
               ELSE /\ inst'[j].id.t = "string"
                    /\ inst'[j].id.s # ""
                    /\ \A k \in Instances \ {j} : inst'[k].id # inst'[j].id
          ELSE inst'[j].id = inst[j].id
      ]_vars

\* two jobs with generated ids, the first after init(name) called twice,
\* the second after init(name, ""), and a call made and settled since
C10_Witness ==
    /\ initArgs["J1"][2] = Undef
    /\ initArgs["J2"][2] = Str("")
    /\ inst["J1"].inited
    /\ inst["J2"].inited
    /\ getId("J1") = Str("5f03")
    /\ getId("J2") = Str("5f02")
    /\ calls = 1
    /\ last.act = "settle"
    /\ last.w.by = "J1"
    /\ last.w.doc._id = Str("5f03")
    /\ inits = 3

\* the last write dispatched
Newest(seq) == seq[Len(seq)]

(***************************************************************************)
(* C11.  log(pattern, args...) of an initialised job returns normally and  *)
(* dispatches one Job Log Entry with the job's                             *)
(* id as job_id, the job's name as name and, as message, the job's name,   *)
(* ": " and the pattern formatted with the arguments; it emits the same    *)
(* text to the diagnostic sink at debug severity; and the store, applying  *)
(* the write, appends that entry to job_log.                               *)
(***************************************************************************)
C11_LogEntry ==
    [][ /\ ( /\ last'.act = "log"
             /\ Len(last'.args) > 0
             /\ inst[last'.by].inited ) =>
             LET j   == last'.by
                 msg == ToStr(inst[j].name) \o ": "
                            \o Format(last'.args[1], Tail(last'.args))
             IN  /\ ~last'.threw
                 /\ Len(pending') = Len(pending) + 1
                 /\ Newest(pending').coll = JOB_LOG_STORE_NAME
                 /\ Newest(pending').doc.object_type = Str(JOB_LOG_STORE_NAME)
                 /\ Newest(pending').doc.job_id = getId(j)
                 /\ Newest(pending').doc.name = inst[j].name
                 /\ Newest(pending').doc.message = Str(msg)
                 /\ diag' = diag (+) SetToBag({[level |-> "debug", message |-> msg]})
        /\ ( last'.act = "settle" /\ last'.w.from = "log" ) =>
             job_log' = Append(job_log, last'.w.doc)
      ]_vars

\* a <= b on numbers
LessEq(a, b) == a.n * b.d <= b.n * a.d

\* a percentage: a number in [0, 100]
IsPercentage(v) == IsFinite(v) /\ LessEq(Num(0, 1), v) /\ LessEq(v, Num(100, 1))

(***************************************************************************)
(* C12.  The progress of every Job Run Record is a number in [0, 100] in   *)
(* every state; a write of onUpdate the store applies never lowers it; a   *)
(* write of onCompleted sets it to 100.                                    *)
(***************************************************************************)
C12_ProgressBounded ==
    [][ /\ \A i \in DOMAIN job_run' : IsPercentage(job_run'[i].progress)
        /\ ( last'.act = "settle" /\ last'.ok /\ last'.w.from = "onUpdate" ) =>
             \A i \in DOMAIN job_run :
                 IsFinite(job_run[i].progress) =>
                     /\ IsFinite(job_run'[i].progress)
                     /\ LessEq(job_run[i].progress, job_run'[i].progress)
        /\ ( last'.act = "settle" /\ last'.ok /\ last'.w.from = "onCompleted" ) =>
             \A i \in RunDocs(getId(last'.w.by)) :
                 job_run'[i].progress = Num(100, 1)
      ]_vars

\* the writes to job_run among the writes in flight
RunWrites(seq) == SelectSeq(seq, LAMBDA w : w.coll = JOB_STORE_NAME)

(***************************************************************************)
(* C13.  onUpdate with a progressIncrement that is not a number and a      *)
(* status that is not a non-empty string sends the store no update of the  *)
(* Job Run Record.                                                         *)
(***************************************************************************)
C13_NoEmptyUpdate ==
    [][ ( /\ last'.act = "onUpdate"
          /\ ~IsFloat(last'.args[1])
          /\ ~ValidateNonEmptyStr(last'.args[2]) )
        => RunWrites(pending') = RunWrites(pending) ]_vars

(***************************************************************************)
(* C14.  run of the base prototype throws at once: the call never invokes  *)
(* its callback and dispatches no write, so no Job Run Record and no Job   *)
(* Log Entry is created or changed by it, and nothing is logged.           *)
(***************************************************************************)
C14_RunThrows ==
    [][ /\ last'.act = "run" =>
             /\ last'.threw
             /\ pending' = pending
             /\ job_run' = job_run
             /\ job_log' = job_log
             /\ diag' = diag
        /\ \A j \in Instances : inst'[j].cbCalls = 0
      ]_vars

\* run called on a started job: its record and the write in flight remain
C14_Witness ==
    /\ last.act = "run"
    /\ last.threw
    /\ inst[last.by].inited
    /\ RunDocs(getId(last.by)) # {}
    /\ RecordIs(last.by, Str("RUNNING"), Num(0, 1), Undef)
    /\ calls = 2

(***************************************************************************)
(* C15.  A job that called onStart, then onUpdate any number of times,     *)
(* then onCompleted(), in this order, has, once all its writes are         *)
(* applied, a Job Run Record that shows the last call: status COMPLETED    *)
(* and progress 100, in whatever order the store applied the writes.       *)
(***************************************************************************)
C15_LastCallWins ==
    ( /\ phase["J1"] = "completed"
      /\ pending = <<>>
      /\ failures = 0 )
    => /\ RunDocs(getId("J1")) # {}
       /\ \A i \in RunDocs(getId("J1")) :
             /\ job_run[i].status = Str(DEFAULT_DONE_STATUS)
             /\ job_run[i].progress = Num(100, 1)

\* the record of job j holds what a write of onCompleted put there
HoldsCompletion(j) ==
    /\ runlog # <<>>
    /\ LastRun.w.from = "onCompleted"
    /\ LastRun.w.by = j
    /\ LastRun.before # Undef

(***************************************************************************)
(* C16.  The persisted status only moves forward: once the record of a job *)
(* holds the terminal status and the progress 100 that onCompleted wrote,  *)
(* no later step makes its status RUNNING or its progress anything but     *)
(* 100, whatever lifecycle calls follow.                                   *)
(***************************************************************************)
C16_TerminalStays ==
    [][ \A j \in Instances :
          HoldsCompletion(j) =>
              \A i \in DOMAIN job_run' :
                  job_run'[i]._id = getId(j) =>
                      /\ job_run'[i].status # Str(DEFAULT_START_STATUS)
                      /\ job_run'[i].progress = Num(100, 1)
      ]_vars

(***************************************************************************)
(* C17.  A Job Run Record has an error only when its job ended in error:   *)
(* a record with status RUNNING or COMPLETED has none, and a step gives a  *)
(* record an error only by applying the write of an onCompleted call that  *)
(* was given one; the writes of onStart and onUpdate never do.             *)
(***************************************************************************)
C17_ErrorOnlyOnFailure ==
    [][ \A i \in DOMAIN job_run' :
          /\ job_run'[i].status \in {Str(DEFAULT_START_STATUS), Str(DEFAULT_DONE_STATUS)}
                => job_run'[i].error = Undef
          /\ ( /\ job_run'[i].error # Undef
               /\ (i \in DOMAIN job_run => job_run[i].error # job_run'[i].error) )
                => /\ last'.act = "settle"
                   /\ last'.w.from = "onCompleted"
                   /\ IsError(DoneErr(last'.w.args[1], last'.w.args[2]))
      ]_vars

(***************************************************************************)
(* C18.  The work weight is kept and nothing else: setting it changes no   *)
(* record, no write in flight and no log, and whatever the weight of the   *)
(* initialised job is, onUpdate(p) sends the increment p itself and the    *)
(* store adds exactly p to the progress of the record.                     *)
(***************************************************************************)
C18_WeightNotApplied ==
    [][ /\ last'.act = "setChunkOfWorkPercentage" =>
             /\ job_run' = job_run
             /\ job_log' = job_log
             /\ pending' = pending
             /\ diag' = diag
        /\ ( /\ last'.act = "onUpdate"
             /\ inst[last'.by].inited
             /\ IsFloat(last'.args[1]) ) =>
             Newest(pending').updates.inc = <<<<"progress", last'.args[1]>>>>
        /\ ( /\ last'.act = "settle"
             /\ last'.w.from = "onUpdate"
             /\ IsFloat(last'.w.args[1]) ) =>
             \A i \in RunDocs(getId(last'.w.by)) :
                 IsFinite(job_run[i].progress) =>
                     job_run'[i].progress =
                         AddNum(job_run[i].progress, last'.w.args[1])
      ]_vars

\* a job of weight 1/2 whose onUpdate(10) raised the progress from 0 to 10
C18_Witness ==
    /\ getChunkOfWorkPercentage("J1") = Num(1, 2)
    /\ AppliedFrom("onUpdate")
    /\ last.w.args[1] = Num(10, 1)
    /\ LastRun.before = Num(0, 1)
    /\ RunDocs(getId("J1")) # {}
    /\ RecordIs("J1", Str("RUNNING"), Num(10, 1), Undef)

(***************************************************************************)
(* C19.  onUpdate(progressIncrement, status) of an initialised job first    *)
(* logs one statement and                                                  *)
(* then sends one update of the job's record, which holds the increment of *)
(* the progress exactly when progressIncrement is a number and the new     *)
(* status exactly when status is a non-empty string.  The store applies    *)
(* the two in one step: no state has the progress raised under the old     *)
(* status or the new status over the old progress.                         *)
(***************************************************************************)
C19_SingleUpdate ==
    [][ /\ ( last'.act = "onUpdate" /\ inst[last'.by].inited ) =>
             LET n  == Len(pending)
                 p  == last'.args[1]
                 st == last'.args[2]
             IN  /\ Len(pending') = n + 2
                 /\ SubSeq(pending', 1, n) = pending
                 /\ pending'[n + 1].from = "log"
                 /\ pending'[n + 1].coll = JOB_LOG_STORE_NAME
                 /\ pending'[n + 1].doc.job_id = getId(last'.by)
                 /\ \E e \in BagToSet(diag') :
                        /\ e.level = "debug"
                        /\ e.message = pending'[n + 1].doc.message.s
                        /\ diag' = diag (+) SetToBag({e})
                 /\ pending'[n + 2].op = "updateFields"
                 /\ pending'[n + 2].coll = JOB_STORE_NAME
                 /\ pending'[n + 2].query = GetIDWhere(getId(last'.by))
                 /\ pending'[n + 2].updates.inc =
                        ( IF IsFloat(p) THEN <<<<"progress", p>>>> ELSE <<>> )
                 /\ pending'[n + 2].updates.set =
                        ( IF ValidateNonEmptyStr(st) THEN <<<<"status", st>>>> ELSE <<>> )
        /\ ( /\ last'.act = "settle"
             /\ last'.w.from = "onUpdate"
             /\ IsFloat(last'.w.args[1])
             /\ ValidateNonEmptyStr(last'.w.args[2]) ) =>
             \A i \in RunDocs(getId(last'.w.by)) :
                 IsFinite(job_run[i].progress) =>
                     /\ job_run'[i].progress =
                            AddNum(job_run[i].progress, last'.w.args[1])
                     /\ job_run'[i].status = last'.w.args[2]
      ]_vars

\* onUpdate(50, "PAUSED") applied to a record that stood at RUNNING, 10
C19_Witness ==
    /\ AppliedFrom("onUpdate")
    /\ last.w.args = <<Num(50, 1), Str("PAUSED")>>
    /\ Len(runlog) = 2
    /\ runlog[1].w.args = <<Num(10, 1), Undef>>
    /\ LastRun.before = Num(10, 1)
    /\ RunDocs(getId("J1")) # {}
    /\ RecordIs("J1", Str("PAUSED"), Num(60, 1), Undef)
    /\ Len(job_log) = 2

\* the writes to job_log among the writes in flight
LogFlight(seq) == SelectSeq(seq, LAMBDA w : w.coll = JOB_LOG_STORE_NAME)

(***************************************************************************)
(* C20.  Job Log Entries are append-only.  Every log call with a message,  *)
(* every onUpdate and every onCompleted of an initialised job dispatches   *)
(* exactly one entry with the job's id, onStart dispatches none, and a     *)
(* call that throws dispatches none; the store, applying such a write,     *)
(* appends the entry to job_log; and no step changes or removes an entry   *)
(* that is there.                                                          *)
(***************************************************************************)
C20_LogAppendOnly ==
    [][ /\ ( /\ \/ last'.act \in {"onUpdate", "onCompleted"}
                \/ last'.act = "log" /\ Len(last'.args) > 0
             /\ inst[last'.by].inited ) =>
             /\ Len(LogFlight(pending')) = Len(LogFlight(pending)) + 1
             /\ SubSeq(LogFlight(pending'), 1, Len(LogFlight(pending)))
                    = LogFlight(pending)
             /\ Newest(LogFlight(pending')).doc.job_id = getId(last'.by)
             /\ job_log' = job_log
        /\ ( last'.act = "onStart" \/ last'.threw ) =>
             /\ LogFlight(pending') = LogFlight(pending)
             /\ job_log' = job_log
        /\ IF last'.act = "settle" /\ last'.ok /\ last'.w.coll = JOB_LOG_STORE_NAME
           THEN job_log' = Append(job_log, last'.w.doc)
           ELSE job_log' = job_log
      ]_vars

\* two entries of one job, the second just appended after the first
C20_Witness ==
    /\ last.act = "settle"
    /\ last.w.from = "log"
    /\ Len(job_log) = 2
    /\ job_log[1].job_id = job_log[2].job_id
    /\ job_log[1].message # job_log[2].message
    /\ job_log[2] = last.w.doc
    /\ calls = 2

\* the job instance whose call, or whose write settling, the last step was
Actor == IF last.act = "settle" THEN last.w.by ELSE last.by

\* the documents of a collection whose field f is id, in their order
DocsOf(coll, f, id) == SelectSeq(coll, LAMBDA doc : doc[f] = id)

(***************************************************************************)
(* C21.  Job instances with different ids do not touch each other: a call  *)
(* of one instance, and the store settling one of its writes, leaves the   *)
(* id, name and weight of every other instance, the other's Job Run Record *)
(* and the other's Job Log Entries as they were.                           *)
(***************************************************************************)
C21_Isolated ==
    [][ \A b \in Instances \ {Actor'} :
          getId(b) # inst'[Actor'].id =>
              /\ inst'[b] = inst[b]
              /\ DocsOf(job_run', "_id", getId(b)) = DocsOf(job_run, "_id", getId(b))
              /\ DocsOf(job_log', "job_id", getId(b)) = DocsOf(job_log, "job_id", getId(b))
      ]_vars

\* two started jobs with ids of their own, each with its own record, the
\* write of the second just applied
C21_Witness ==
    /\ getId("J1") = Str("job-7")
    /\ getId("J2") = Str("5f01")
    /\ AppliedFrom("onStart")
    /\ last.w.by = "J2"
    /\ RunDocs(getId("J1")) # {}
    /\ RunDocs(getId("J2")) # {}
    /\ RecordIs("J1", Str("QUEUED"), Num(0, 1), Undef)
    /\ RecordIs("J2", Str("RUNNING"), Num(0, 1), Undef)

\* this step applies, in the order of the calls, the write of an onCompleted
\* call to a record that holds what an earlier onCompleted of the job wrote
RepeatedCompletion ==
    /\ last'.act = "settle"
    /\ last'.ok
    /\ last'.w.from = "onCompleted"
    /\ inOrder'
    /\ HoldsCompletion(last'.w.by)

(***************************************************************************)
(* C22.  Repeated completion is last-write-wins.  When the writes of two   *)
(* onCompleted calls of a started job are applied in the order of the      *)
(* calls, the record has the status and the error of the second call and   *)
(* progress 100; when the two calls had the same arguments, the second     *)
(* write leaves job_run as the first left it, and the second call has      *)
(* added nothing but its log entry.                                        *)
(***************************************************************************)
C22_LastCompletionWins ==
    [][ /\ RepeatedCompletion =>
             LET status == last'.w.args[1]
                 err    == last'.w.args[2]
             IN  /\ \A i \in DOMAIN job_run' :
                        job_run'[i]._id = getId(last'.w.by) =>
                            /\ job_run'[i].status = DoneStatus(status, err)
                            /\ job_run'[i].progress = Num(100, 1)
                            /\ job_run'[i].error =
                                   ( IF IsError(DoneErr(status, err))
                                     THEN Str(DoneErr(status, err).s) ELSE Undef )
                 /\ LastRun.w.args = last'.w.args => job_run' = job_run
                 /\ Len(job_run') = Len(job_run)
                 /\ job_log' = job_log
        /\ ( last'.act = "onCompleted" /\ inst[last'.by].inited ) =>
             /\ Len(RunWrites(pending')) = Len(RunWrites(pending)) + 1
             /\ Len(LogFlight(pending')) = Len(LogFlight(pending)) + 1
             /\ job_run' = job_run
      ]_vars

\* onCompleted(error) and then onCompleted(), both applied: COMPLETED, no
\* error, and the two log entries of the two calls
C22_Witness ==
    /\ AppliedFrom("onCompleted")
    /\ inOrder
    /\ Len(runlog) = 2
    /\ runlog[1].w.from = "onCompleted"
    /\ runlog[1].w.args = <<AnError, Undef>>
    /\ runlog[1].before = Num(0, 1)
    /\ runlog[2].w.args = <<Undef, Undef>>
    /\ runlog[2].before = Num(100, 1)
    /\ RunDocs(getId("J1")) # {}
    /\ RecordIs("J1", Str("COMPLETED"), Num(100, 1), Undef)
    /\ Len(job_log) = 2
    /\ pending = <<>>
====
